---------------------------- MODULE Spec2Model ----------------------------
(***************************************************************************)
(* A model of the metering core of syslog-ng:                              *)
(*   - lib/filter/filter-throttle.c : the keyed token-bucket throttle      *)
(*     filter (FilterThrottle, ThrottleRateLimit);                         *)
(*   - lib/stats.c : expiry of counter clusters and the pruning pass.      *)
(* The two halves share no state.  ThrottleSpec runs the throttle filter   *)
(* and leaves the statistics state at its initial value; StatsSpec does    *)
(* the converse.                                                           *)
(***************************************************************************)
EXTENDS Integers, Sequences, FiniteSets, TLC

(***************************************************************************)
(* Bounds of the model.                                                    *)
(***************************************************************************)
\* rate() arguments range over -1 .. MaxRate
MaxRate == 2
\* a batch handed to the filter holds 1 .. MaxBatch messages
MaxBatch == 2
\* the wall clock takes the values 0 .. MaxTicks (in units of TickUsec)
MaxTicks == 2
\* the workers call the filter at most MaxCalls times in all
MaxCalls == 3
\* the statistics clock takes the values 0 .. MaxNow (seconds)
MaxNow == 2
\* stats_lifetime() ranges over 0 .. MaxLifetime
MaxLifetime == 2
\* stats_freq() ranges over -1 .. MaxFreq
MaxFreq == 1
\* a cluster is referenced at most MaxRef times at once
MaxRef == 2
\* a lifetime longer than any run of the clock (the lifetime=10 scenario)
LongLifetime == 10
\* the longest time, in ticks, a filter with a high rate is left idle
MaxIdle == 8

(***************************************************************************)
(* Program constants.                                                      *)
(***************************************************************************)
G_USEC_PER_SEC == 1000000
\* indices of the counter types (the order of tag_names in stats_get_type_name)
SC_TYPE_PROCESSED == 1
SC_TYPE_STAMP == 4

\* the wall clock is observed at a granularity of half a second
TickUsec == G_USEC_PER_SEC \div 2

\* gint is 32 bits wide: G_MAXINT is 2^31 - 1, G_MININT is -2^31; a gint
\* is held as two half words of 16 bits where its value modulo 2^32 is
\* computed
G_MAXINT == 2147483647
G_MININT == -G_MAXINT - 1
HalfWord == 65536

Threads == {"t1", "t2"}
NoThread == "none"

\* the value of the key field on a message: a string, or not set at all
ABSENT == "<absent>"
FieldValues == {ABSENT, "a"}
Keys == {"", "a"}

Batches == UNION {[1..n -> FieldValues] : n \in 1..MaxBatch}

VARIABLES
  \* ---- FilterThrottle ----
  rate,            \* self->rate
  key_handle,      \* self->key_handle (0: not set)
  map_lock,        \* holder of self->map_lock
  rate_limits,     \* self->rate_limits: key -> index into heap, 0 for NULL
  heap,            \* the ThrottleRateLimit objects allocated so far
  init_result,     \* what filter_throttle_init returned ("unset" before)
  msg_errors,      \* number of msg_error() calls
  clock,           \* the wall clock, in ticks
  calls,           \* number of filter_throttle_eval calls made so far
  \* ---- one filter_throttle_eval call per thread ----
  pc, msgs, key, num_msg, rl, now, num_new_tokens, within_ratelimit,
  \* ---- history, per key ----
  accepted,        \* messages accepted since the bucket was created, while
                   \* the clock has not changed
  elapsed,         \* the clock has changed since the bucket was created
  \* ---- history, per key, kept by RefillSpec and CreditSpec ----
  created,         \* the clock reading at which the bucket was created
  last_call,       \* the clock reading of the last call of
                   \* throttle_ratelimit_add_new_tokens for the bucket
  admitted         \* messages accepted since the bucket was created

VARIABLES
  \* ---- lib/stats.c ----
  stats_options,   \* *stats_options, "NULL" before stats_reinit
  clusters,        \* the registry: cluster id -> StatsCluster, or NoCluster
  stats_lock,      \* holder of the registry lock
  stats_clock,     \* the cached wall clock, in seconds
  stats_timer,     \* struct iv_timer stats_timer
  iv_timers,       \* the wakes registered with the event loop (expiry times)
  pass_pc,         \* position of the main thread in stats_timer_elapsed
  st,              \* StatsTimerState st
  to_visit,        \* clusters stats_foreach_cluster_remove has yet to visit
  cur,             \* the cluster being visited
  expired,         \* what stats_prune_counter returned for it
  formatted,       \* clusters handed to stats_log_format_cluster in this pass
  sent,            \* msg_event_send() was called in this pass
  notice,          \* the msg_notice() of this pass
  \* ---- history ----
  snapshot,        \* the registry as it was when the pass took the lock
  rescheduled      \* the last stats_reinit cancelled a pending wake of
                   \* another expiry time, and no wake has fired since

timer_vars == <<stats_timer, iv_timers, rescheduled>>

stats_vars == <<stats_options, clusters, stats_lock, stats_clock, timer_vars,
                pass_pc, st, to_visit, cur, expired, formatted, sent, notice,
                snapshot>>

hist_vars == <<created, last_call, admitted>>

throttle_vars == <<rate, key_handle, map_lock, rate_limits, heap, init_result,
                   msg_errors, clock, calls, pc, msgs, key, num_msg, rl, now,
                   num_new_tokens, within_ratelimit, accepted, elapsed,
                   hist_vars>>

vars == <<throttle_vars, stats_vars>>

(***************************************************************************)
(* Helpers                                                                 *)
(***************************************************************************)
\* C integer division truncates towards zero
CDiv(a, b) == IF a >= 0 THEN a \div b ELSE -((-a) \div b)

\* the MIN() macro
MIN(a, b) == IF a < b THEN a ELSE b

\* a GTimeVal for a clock reading
TimeVal(ticks) ==
  [tv_sec  |-> (ticks * TickUsec) \div G_USEC_PER_SEC,
   tv_usec |-> (ticks * TickUsec) % G_USEC_PER_SEC]

g_get_current_time == TimeVal(clock)

g_time_val_diff(t1, t2) ==
  (t1.tv_sec - t2.tv_sec) * G_USEC_PER_SEC + (t1.tv_usec - t2.tv_usec)

\* log_msg_get_value(): the value of a field, "" when the field is not set
log_msg_get_value(msg) == IF msg = ABSENT THEN "" ELSE msg

ZeroTime == [tv_sec |-> 0, tv_usec |-> 0]


(***************************************************************************)
(* ThrottleRateLimit                                                       *)
(***************************************************************************)
\* throttle_ratelimit_new without line 56: g_new0 leaves tokens at 0
throttle_ratelimit_new_empty(r) ==
  [tokens     |-> 0,
   rate       |-> r,
   last_check |-> g_get_current_time,
   lock       |-> NoThread]

throttle_ratelimit_new(r) ==
  [tokens     |-> r,
   rate       |-> r,
   last_check |-> g_get_current_time,
   lock       |-> NoThread]

Abs(x) == IF x < 0 THEN -x ELSE x

\* floor(u * r / G_USEC_PER_SEC) for 0 <= u, r < G_USEC_PER_SEC, computed on
\* parts of three decimal digits
MulDivUsec(u, r) ==
  LET u1 == u \div 1000
      u0 == u % 1000
      r1 == r \div 1000
      r0 == r % 1000
  IN  u1 * r1 + (((u1 * r0 + u0 * r1) * 1000 + u0 * r0) \div G_USEC_PER_SEC)

\* floor(a * r / G_USEC_PER_SEC) modulo 2^32, for a >= 0 microseconds and
\* r >= 0: with a = s seconds + u microseconds, the quotient is
\* s * r + floor(u * r / G_USEC_PER_SEC); the 64-bit product does not
\* overflow for the times the clock takes
QuotientWord(a, r) ==
  LET s == a \div G_USEC_PER_SEC
      u == a % G_USEC_PER_SEC
      f == u * (r \div G_USEC_PER_SEC) + MulDivUsec(u, r % G_USEC_PER_SEC)
      lo == s * (r % HalfWord) + (f % HalfWord)
      hi == s * (r \div HalfWord) + (f \div HalfWord) + (lo \div HalfWord)
  IN  [hi |-> hi % HalfWord, lo |-> lo % HalfWord]

\* negation modulo 2^32
NegWord(w) ==
  IF w.lo = 0
    THEN [hi |-> (HalfWord - w.hi) % HalfWord, lo |-> 0]
    ELSE [hi |-> HalfWord - 1 - w.hi, lo |-> HalfWord - w.lo]

\* the gint with a given value modulo 2^32
WordToInt(w) ==
  IF w.hi >= HalfWord \div 2
    THEN (w.hi - HalfWord) * HalfWord + w.lo
    ELSE w.hi * HalfWord + w.lo

\* (gint) ((usec * r) / G_USEC_PER_SEC): the division truncates towards
\* zero, the conversion to gint keeps the low 32 bits
LongQuotientToInt(usec, r) ==
  LET w == QuotientWord(Abs(usec), Abs(r))
  IN  WordToInt(IF (usec < 0) # (r < 0) THEN NegWord(w) ELSE w)

\* num_new_tokens without the rate in line 77
NumNewTokens_norate(self, t_now, last_check) ==
  CDiv(g_time_val_diff(t_now, last_check), G_USEC_PER_SEC)

\* num_new_tokens of throttle_ratelimit_add_new_tokens, for the time read
\* from the clock and the value of last_check the read observed:
\* (usec_since_last_fill * self->rate) / G_USEC_PER_SEC is computed in glong
\* (64 bits) and stored in a gint
NumNewTokens(self, t_now, last_check) ==
  LongQuotientToInt(g_time_val_diff(t_now, last_check), self.rate)

\* The read of self->last_check in throttle_ratelimit_add_new_tokens is not
\* protected by self->lock.  While another thread is about to store its own
\* reading into last_check (two words, tv_sec and tv_usec), the read may
\* observe the old value, the new value or a mix of the two.
LastCheckReads(t) ==
  LET old == heap[rl[t]].last_check
      writers == {u \in Threads \ {t} : pc[u] = "refill_update" /\ rl[u] = rl[t]}
  IN  {old} \cup UNION {
        { now[u],
          [tv_sec |-> old.tv_sec,    tv_usec |-> now[u].tv_usec],
          [tv_sec |-> now[u].tv_sec, tv_usec |-> old.tv_usec] } : u \in writers }

\* self->tokens + num_new_tokens is a gint addition; it overflows when the
\* sum is not a gint
IntAddOverflows(x, y) ==
  \/ y > 0 /\ x > G_MAXINT - y
  \/ y < 0 /\ x < G_MININT - y

\* the sum modulo 2^32 of an addition that overflows
IntAddWrapped(x, y) ==
  IF y > 0
    THEN (x - G_MAXINT - 1) + (y - G_MAXINT - 1)
    ELSE (x + G_MAXINT + 1) + (y + G_MAXINT + 1)

\* the values MIN(self->rate, self->tokens + num_new_tokens) may take.  An
\* addition that overflows is undefined: the build either compares and
\* stores the wrapped sum, or has folded the comparison on the assumption
\* that the addition does not overflow and stores self->rate for a sum
\* above G_MAXINT.
RefilledTokens(self, n_new) ==
  IF IntAddOverflows(self.tokens, n_new)
    THEN {MIN(self.rate, IntAddWrapped(self.tokens, n_new))}
           \cup (IF n_new > 0 THEN {self.rate} ELSE {})
    ELSE {MIN(self.rate, self.tokens + n_new)}

\* the critical section without line 83
add_new_tokens_stale(self, n_new, t_now) ==
  {[self EXCEPT !.tokens = v] : v \in RefilledTokens(self, n_new)}

\* the critical section of throttle_ratelimit_add_new_tokens: the buckets
\* it may leave
add_new_tokens(self, n_new, t_now) ==
  {[self EXCEPT !.tokens = v, !.last_check = t_now] :
     v \in RefilledTokens(self, n_new)}

\* try_consume_tokens with > for >= in line 95
try_consume_tokens_strict(self, num_tokens) ==
  IF self.tokens > num_tokens
    THEN [bucket |-> [self EXCEPT !.tokens = self.tokens - num_tokens],
          within |-> TRUE]
    ELSE [bucket |-> self, within |-> FALSE]

\* the critical section of throttle_ratelimit_try_consume_tokens:
\* the bucket afterwards and the value returned
try_consume_tokens(self, num_tokens) ==
  IF self.tokens >= num_tokens
    THEN [bucket |-> [self EXCEPT !.tokens = self.tokens - num_tokens],
          within |-> TRUE]
    ELSE [bucket |-> self, within |-> FALSE]

(***************************************************************************)
(* FilterThrottle: construction and configuration                          *)
(***************************************************************************)
ThrottleInit ==
  /\ rate = 0
  /\ key_handle = 0
  /\ map_lock = NoThread
  /\ rate_limits = [k \in Keys |-> 0]
  /\ heap = <<>>
  /\ init_result = "unset"
  /\ msg_errors = 0
  /\ clock = 0
  /\ calls = 0
  /\ pc = [t \in Threads |-> "idle"]
  /\ msgs = [t \in Threads |-> <<>>]
  /\ key = [t \in Threads |-> ""]
  /\ num_msg = [t \in Threads |-> 0]
  /\ rl = [t \in Threads |-> 0]
  /\ now = [t \in Threads |-> ZeroTime]
  /\ num_new_tokens = [t \in Threads |-> 0]
  /\ within_ratelimit = [t \in Threads |-> FALSE]
  /\ accepted = [k \in Keys |-> 0]
  /\ elapsed = [k \in Keys |-> FALSE]
  /\ created = [k \in Keys |-> 0]
  /\ last_call = [k \in Keys |-> 0]
  /\ admitted = [k \in Keys |-> 0]

eval_vars == <<calls, pc, msgs, key, num_msg, rl, now, num_new_tokens, within_ratelimit>>

filter_throttle_set_rate(r) ==
  /\ init_result = "unset"
  /\ rate' = r
  /\ UNCHANGED <<stats_vars, key_handle, map_lock, rate_limits, heap, init_result,
                 msg_errors, clock, accepted, elapsed, hist_vars, eval_vars>>

filter_throttle_set_key(h) ==
  /\ init_result = "unset"
  /\ key_handle' = h
  /\ UNCHANGED <<stats_vars, rate, map_lock, rate_limits, heap, init_result,
                 msg_errors, clock, accepted, elapsed, hist_vars, eval_vars>>

\* init_accepts with < for <= in line 166
init_accepts_zero(r) == ~(r < 0)

\* the value filter_throttle_init returns for a configured rate
init_accepts(r) == ~(r <= 0)

filter_throttle_init ==
  /\ init_result = "unset"
  /\ IF init_accepts(rate)
       THEN /\ init_result' = "TRUE"
            /\ UNCHANGED msg_errors
       ELSE /\ msg_errors' = msg_errors + 1
            /\ init_result' = "FALSE"
  /\ UNCHANGED <<stats_vars, rate, key_handle, map_lock, rate_limits, heap, clock,
                 accepted, elapsed, hist_vars, eval_vars>>

(***************************************************************************)
(* The wall clock (g_get_current_time): it advances, and it is stepped     *)
(* back when the system time is adjusted.                                  *)
(***************************************************************************)
\* history: time has elapsed for every key that has a bucket
ClockChanged ==
  /\ elapsed' = [k \in Keys |-> rate_limits[k] # 0]
  /\ accepted' = [k \in Keys |-> 0]
  /\ UNCHANGED hist_vars

ClockAdvance ==
  /\ clock < MaxTicks
  /\ clock' = clock + 1
  /\ ClockChanged
  /\ UNCHANGED <<stats_vars, rate, key_handle, map_lock, rate_limits, heap, init_result,
                 msg_errors, eval_vars>>

ClockStepBack ==
  /\ clock > 0
  /\ clock' \in 0..(clock - 1)
  /\ ClockChanged
  /\ UNCHANGED <<stats_vars, rate, key_handle, map_lock, rate_limits, heap, init_result,
                 msg_errors, eval_vars>>


(***************************************************************************)
(* filter_throttle_eval, one step per statement that other threads can     *)
(* observe.  A mutex is released in the step of the last statement of its  *)
(* critical section; a local variable is reset once it is not read again.  *)
(***************************************************************************)
config_vars == <<rate, key_handle, init_result, msg_errors, clock>>
call_vars == <<config_vars, calls>>

\* eval_key reading msgs[0] for msgs[num_msg-1] in line 126
eval_key_first(handle, batch) ==
  IF handle # 0
    THEN log_msg_get_value(batch[1])
    ELSE ""

\* the key filter_throttle_eval derives from a batch
eval_key(handle, batch) ==
  IF handle # 0
    THEN log_msg_get_value(batch[Len(batch)])
    ELSE ""

\* a lookup whose key comparison holds for any two keys
g_hash_table_lookup_any(table, k) ==
  IF \E x \in DOMAIN table : table[x] # 0
    THEN table[CHOOSE x \in DOMAIN table : table[x] # 0]
    ELSE 0

\* line 139; the table compares keys with g_str_equal (line 199)
g_hash_table_lookup(table, k) == table[k]

\* g_mutex_lock() returns once the mutex is free
g_mutex_is_free(holder) == holder = NoThread

\* a worker calls the filter on a batch; the filter runs only in a
\* configuration whose init succeeded
EvalCall(t, batch) ==
  /\ init_result = "TRUE"
  /\ pc[t] = "idle"
  /\ calls < MaxCalls
  /\ calls' = calls + 1
  /\ msgs' = [msgs EXCEPT ![t] = batch]
  /\ pc' = [pc EXCEPT ![t] = "derive_key"]
  /\ UNCHANGED <<stats_vars, config_vars, map_lock, rate_limits, heap, key, num_msg, rl,
                 now, num_new_tokens, within_ratelimit, accepted, elapsed, hist_vars>>

\* lines 121-133
EvalKey(t) ==
  /\ pc[t] = "derive_key"
  /\ key' = [key EXCEPT ![t] = eval_key(key_handle, msgs[t])]
  /\ num_msg' = [num_msg EXCEPT ![t] = Len(msgs[t])]
  /\ pc' = [pc EXCEPT ![t] = "map_lock"]
  /\ UNCHANGED <<stats_vars, call_vars, map_lock, rate_limits, heap, msgs, rl,
                 now, num_new_tokens, within_ratelimit, accepted, elapsed, hist_vars>>

\* line 137 without the lock: the thread goes on to the lookup at once
MapLockSkipped(t) ==
  /\ pc[t] = "map_lock"
  /\ msgs' = [msgs EXCEPT ![t] = <<>>]
  /\ pc' = [pc EXCEPT ![t] = "lookup"]
  /\ UNCHANGED <<stats_vars, call_vars, map_lock, rate_limits, heap, key,
                 num_msg, rl, now, num_new_tokens, within_ratelimit, accepted,
                 elapsed, hist_vars>>

\* line 137; msgs is not read after the key was derived
MapLock(t) ==
  /\ pc[t] = "map_lock"
  /\ g_mutex_is_free(map_lock)
  /\ map_lock' = t
  /\ msgs' = [msgs EXCEPT ![t] = <<>>]
  /\ pc' = [pc EXCEPT ![t] = "lookup"]
  /\ UNCHANGED <<stats_vars, call_vars, rate_limits, heap, key, num_msg, rl,
                 now, num_new_tokens, within_ratelimit, accepted, elapsed, hist_vars>>

\* the lookup with line 147 left out when the key has a bucket
MapLookup_keeps_lock(t) ==
  /\ pc[t] = "lookup"
  /\ rl' = [rl EXCEPT ![t] = g_hash_table_lookup(rate_limits, key[t])]
  /\ IF rl'[t] = 0
       THEN pc' = [pc EXCEPT ![t] = "insert"]
       ELSE pc' = [pc EXCEPT ![t] = "refill_read"]
  /\ UNCHANGED <<stats_vars, call_vars, map_lock, rate_limits, heap, msgs, key,
                 num_msg, now, num_new_tokens, within_ratelimit, accepted,
                 elapsed, hist_vars>>

\* line 139, and lines 141, 147 when the key has a bucket
MapLookup(t) ==
  /\ pc[t] = "lookup"
  /\ rl' = [rl EXCEPT ![t] = g_hash_table_lookup(rate_limits, key[t])]
  /\ IF rl'[t] = 0
       THEN /\ pc' = [pc EXCEPT ![t] = "insert"]
            /\ UNCHANGED map_lock
       ELSE /\ pc' = [pc EXCEPT ![t] = "refill_read"]
            /\ map_lock' = NoThread
  /\ UNCHANGED <<stats_vars, call_vars, rate_limits, heap, msgs, key, num_msg,
                 now, num_new_tokens, within_ratelimit, accepted, elapsed, hist_vars>>

\* lines 143-147
MapInsert(t) ==
  /\ pc[t] = "insert"
  /\ heap' = Append(heap, throttle_ratelimit_new(rate))
  /\ rl' = [rl EXCEPT ![t] = Len(heap) + 1]
  /\ rate_limits' = [rate_limits EXCEPT ![key[t]] = Len(heap) + 1]
  /\ accepted' = [accepted EXCEPT ![key[t]] = 0]
  /\ elapsed' = [elapsed EXCEPT ![key[t]] = FALSE]
  /\ map_lock' = NoThread
  /\ pc' = [pc EXCEPT ![t] = "refill_read"]
  /\ UNCHANGED <<stats_vars, call_vars, msgs, key, num_msg, now,
                 num_new_tokens, within_ratelimit>>

\* lines 74-78: read the clock and last_check, compute num_new_tokens
RefillRead(t) ==
  /\ pc[t] = "refill_read"
  /\ \E seen \in LastCheckReads(t) :
       LET n_new == NumNewTokens(heap[rl[t]], g_get_current_time, seen)
       IN  /\ num_new_tokens' = [num_new_tokens EXCEPT ![t] = n_new]
           /\ IF n_new # 0
                THEN /\ now' = [now EXCEPT ![t] = g_get_current_time]
                     /\ pc' = [pc EXCEPT ![t] = "refill_lock"]
                ELSE /\ UNCHANGED now
                     /\ pc' = [pc EXCEPT ![t] = "consume_lock"]
  /\ UNCHANGED <<stats_vars, call_vars, map_lock, rate_limits, heap, msgs, key, num_msg,
                 rl, within_ratelimit, accepted, elapsed>>

RefillLock(t) ==
  /\ pc[t] = "refill_lock"
  /\ g_mutex_is_free(heap[rl[t]].lock)
  /\ heap' = [heap EXCEPT ![rl[t]].lock = t]
  /\ pc' = [pc EXCEPT ![t] = "refill_update"]
  /\ UNCHANGED <<stats_vars, call_vars, map_lock, rate_limits, msgs, key, num_msg, rl,
                 now, num_new_tokens, within_ratelimit, accepted, elapsed, hist_vars>>

\* lines 82-85
RefillUpdate(t) ==
  /\ pc[t] = "refill_update"
  /\ \E b \in add_new_tokens(heap[rl[t]], num_new_tokens[t], now[t]) :
       heap' = [heap EXCEPT ![rl[t]] = [b EXCEPT !.lock = NoThread]]
  /\ now' = [now EXCEPT ![t] = ZeroTime]
  /\ num_new_tokens' = [num_new_tokens EXCEPT ![t] = 0]
  /\ pc' = [pc EXCEPT ![t] = "consume_lock"]
  /\ UNCHANGED <<stats_vars, call_vars, map_lock, rate_limits, msgs, key, num_msg, rl,
                 within_ratelimit, accepted, elapsed, hist_vars>>

ConsumeLock(t) ==
  /\ pc[t] = "consume_lock"
  /\ g_mutex_is_free(heap[rl[t]].lock)
  /\ heap' = [heap EXCEPT ![rl[t]].lock = t]
  /\ pc' = [pc EXCEPT ![t] = "consume"]
  /\ UNCHANGED <<stats_vars, call_vars, map_lock, rate_limits, msgs, key, num_msg, rl,
                 now, num_new_tokens, within_ratelimit, accepted, elapsed, hist_vars>>

\* lines 95-103
Consume(t) ==
  /\ pc[t] = "consume"
  /\ LET r == try_consume_tokens(heap[rl[t]], num_msg[t])
     IN  /\ heap' = [heap EXCEPT ![rl[t]] = r.bucket]
         /\ within_ratelimit' = [within_ratelimit EXCEPT ![t] = r.within]
         /\ accepted' = [accepted EXCEPT ![key[t]] =
                           IF r.within /\ ~elapsed[key[t]]
                             THEN @ + num_msg[t] ELSE @]
  /\ pc' = [pc EXCEPT ![t] = "consume_unlock"]
  /\ UNCHANGED <<stats_vars, call_vars, map_lock, rate_limits, msgs, key, num_msg, rl,
                 now, num_new_tokens, elapsed>>

\* lines 105-106 and the return of filter_throttle_eval
ConsumeUnlock(t) ==
  /\ pc[t] = "consume_unlock"
  /\ heap' = [heap EXCEPT ![rl[t]].lock = NoThread]
  /\ pc' = [pc EXCEPT ![t] = "idle"]
  /\ key' = [key EXCEPT ![t] = ""]
  /\ num_msg' = [num_msg EXCEPT ![t] = 0]
  /\ rl' = [rl EXCEPT ![t] = 0]
  /\ within_ratelimit' = [within_ratelimit EXCEPT ![t] = FALSE]
  /\ UNCHANGED <<stats_vars, call_vars, map_lock, rate_limits, msgs,
                 now, num_new_tokens, accepted, elapsed, hist_vars>>

(***************************************************************************)
(* lib/stats.c: the registry of counter clusters                           *)
(***************************************************************************)
ClusterIds == {"c1", "c2"}
NoCluster == "none"
MainThread == "main"
Holder == "holder"

\* mask & (1 << bit)
BitAnd(mask, bit) == IF (mask \div (2 ^ bit)) % 2 = 1 THEN 2 ^ bit ELSE 0
\* mask | (1 << bit)
BitOr(mask, bit) == IF BitAnd(mask, bit) = 0 THEN mask + 2 ^ bit ELSE mask

CounterTypes == {SC_TYPE_PROCESSED, SC_TYPE_STAMP}

\* lifetimes: the short ones, an odd one above them, and a long one
Lifetimes == 0..MaxLifetime \cup {2 * MaxLifetime + 1, LongLifetime}

Options == [log_freq : -1..MaxFreq, lifetime : Lifetimes]

NoNotice == [dropped |-> 0, oldest_timestamp |-> 0]
NoState == [now |-> 0, oldest_counter |-> 0, dropped_counters |-> 0,
            stats_event |-> FALSE]

StatsInit ==
  /\ stats_options = "NULL"
  /\ clusters = [c \in {} |-> 0]
  /\ stats_lock = NoThread
  /\ stats_clock = 0
  /\ stats_timer = [handler |-> FALSE, cookie |-> 0, registered |-> FALSE,
                    expires |-> 0]
  /\ iv_timers = <<>>
  /\ rescheduled = FALSE
  /\ pass_pc = "idle"
  /\ st = NoState
  /\ to_visit = {}
  /\ cur = NoCluster
  /\ expired = FALSE
  /\ formatted = {}
  /\ sent = FALSE
  /\ notice = NoNotice
  /\ snapshot = [c \in {} |-> 0]

pass_vars == <<pass_pc, st, to_visit, cur, expired, formatted, sent, notice,
               snapshot>>

(***************************************************************************)
(* The holders of counters (stats-registry.c): a worker takes the registry *)
(* lock, registers and unregisters counters of a cluster, stamps it, and   *)
(* releases the lock.                                                      *)
(***************************************************************************)
stats_lock_acquire ==
  /\ stats_lock = NoThread
  /\ stats_lock' = Holder
  /\ UNCHANGED <<throttle_vars, stats_options, clusters, stats_clock, timer_vars, pass_vars>>

stats_unlock ==
  /\ stats_lock = Holder
  /\ stats_lock' = NoThread
  /\ UNCHANGED <<throttle_vars, stats_options, clusters, stats_clock, timer_vars, pass_vars>>

NewCluster(dyn) ==
  [dynamic |-> dyn, ref_cnt |-> 0, live_mask |-> 0,
   counters |-> [ty \in CounterTypes |-> 0]]

\* stats_register_counter / stats_register_dynamic_counter: the cluster is
\* created on its first counter; the counter becomes live and holds a
\* reference
stats_register_counter(c, dyn, type) ==
  /\ stats_lock = Holder
  /\ c \in DOMAIN clusters => clusters[c].dynamic = dyn
  \* the stamp is an associated counter of a cluster that has its counter
  /\ type = SC_TYPE_STAMP =>
       c \in DOMAIN clusters /\ BitAnd(clusters[c].live_mask, SC_TYPE_PROCESSED) # 0
  /\ LET sc == IF c \in DOMAIN clusters THEN clusters[c] ELSE NewCluster(dyn)
     IN  /\ sc.ref_cnt < MaxRef
         /\ clusters' = [x \in DOMAIN clusters \cup {c} |->
                           IF x = c
                             THEN [sc EXCEPT !.ref_cnt = @ + 1,
                                             !.live_mask = BitOr(@, type)]
                             ELSE clusters[x]]
  /\ UNCHANGED <<throttle_vars, stats_options, stats_lock, stats_clock, timer_vars, pass_vars>>

stats_unregister_counter(c) ==
  /\ stats_lock = Holder
  /\ c \in DOMAIN clusters
  /\ clusters[c].ref_cnt > 0
  /\ clusters' = [clusters EXCEPT ![c].ref_cnt = @ - 1]
  /\ UNCHANGED <<throttle_vars, stats_options, stats_lock, stats_clock, timer_vars, pass_vars>>

\* stats_counter_set(stamp, now) by a holder of a reference
stats_counter_set_stamp(c) ==
  /\ stats_lock = Holder
  /\ c \in DOMAIN clusters
  /\ clusters[c].ref_cnt > 0
  /\ BitAnd(clusters[c].live_mask, SC_TYPE_STAMP) # 0
  /\ clusters' = [clusters EXCEPT ![c].counters[SC_TYPE_STAMP] = stats_clock]
  /\ UNCHANGED <<throttle_vars, stats_options, stats_lock, stats_clock, timer_vars, pass_vars>>

StatsClockAdvance ==
  /\ stats_clock < MaxNow
  /\ stats_clock' = stats_clock + 1
  /\ UNCHANGED <<throttle_vars, stats_options, clusters, stats_lock, timer_vars, pass_vars>>

(***************************************************************************)
(* Expiry and the pruning pass                                             *)
(***************************************************************************)
\* stats_counter_is_expired with < for <= in line 195
stats_counter_is_expired_strict(sc, t_now) ==
  IF ~sc.dynamic THEN FALSE
  ELSE IF sc.ref_cnt > 0 THEN FALSE
  ELSE IF BitAnd(sc.live_mask, SC_TYPE_STAMP) = 0 THEN FALSE
  ELSE LET tstamp == sc.counters[SC_TYPE_STAMP]
       IN  tstamp < t_now - stats_options.lifetime

\* stats_counter_is_expired without lines 186-187
stats_counter_is_expired_noref(sc, t_now) ==
  IF ~sc.dynamic THEN FALSE
  ELSE IF BitAnd(sc.live_mask, SC_TYPE_STAMP) = 0 THEN FALSE
  ELSE LET tstamp == sc.counters[SC_TYPE_STAMP]
       IN  tstamp <= t_now - stats_options.lifetime

stats_counter_is_expired(sc, t_now) ==
  IF ~sc.dynamic THEN FALSE
  ELSE IF sc.ref_cnt > 0 THEN FALSE
  ELSE IF BitAnd(sc.live_mask, SC_TYPE_STAMP) = 0 THEN FALSE
  ELSE LET tstamp == sc.counters[SC_TYPE_STAMP]
       IN  tstamp <= t_now - stats_options.lifetime

\* stats_prune_counter with line 217 inside the if of line 215
stats_prune_counter_miscount(sc, state) ==
  LET is_exp == stats_counter_is_expired(sc, state.now)
      tstamp == sc.counters[SC_TYPE_STAMP]
      older == state.oldest_counter = 0 \/ state.oldest_counter > tstamp
  IN  IF is_exp
        THEN [st |-> [state EXCEPT
                        !.oldest_counter = IF older THEN tstamp ELSE @,
                        !.dropped_counters = IF older THEN @ + 1 ELSE @],
              expired |-> TRUE]
        ELSE [st |-> state, expired |-> FALSE]

\* stats_prune_counter: the StatsTimerState afterwards and the value returned
stats_prune_counter(sc, state) ==
  LET is_exp == stats_counter_is_expired(sc, state.now)
      tstamp == sc.counters[SC_TYPE_STAMP]
  IN  IF is_exp
        THEN [st |-> [state EXCEPT
                        !.oldest_counter =
                           IF state.oldest_counter = 0 \/ state.oldest_counter > tstamp
                             THEN tstamp ELSE @,
                        !.dropped_counters = @ + 1],
              expired |-> TRUE]
        ELSE [st |-> state, expired |-> FALSE]

\* the registry without a cluster
g_hash_table_remove(table, c) == [x \in DOMAIN table \ {c} |-> table[x]]

(***************************************************************************)
(* The timer.  A timer state tm is the struct iv_timer together with the   *)
(* event loop's list of registered wakes.                                  *)
(***************************************************************************)
\* a sequence without its i-th element
RemoveAt(seq, i) == SubSeq(seq, 1, i - 1) \o SubSeq(seq, i + 1, Len(seq))

\* the position of the timer's wake in the list
WakeIndex(tm) ==
  CHOOSE i \in 1..Len(tm.wakes) : tm.wakes[i] = tm.timer.expires

iv_timer_register(tm) ==
  [timer |-> [tm.timer EXCEPT !.registered = TRUE],
   wakes |-> Append(tm.wakes, tm.timer.expires)]

iv_timer_unregister(tm) ==
  [timer |-> [tm.timer EXCEPT !.registered = FALSE],
   wakes |-> RemoveAt(tm.wakes, WakeIndex(tm))]

stats_timer_rearm(tm) ==
  IF tm.timer.cookie > 0
    THEN iv_timer_register(
           [tm EXCEPT !.timer.expires = stats_clock + tm.timer.cookie])
    ELSE tm

stats_timer_init(tm, freq) ==
  [tm EXCEPT !.timer.registered = FALSE, !.timer.handler = TRUE,
             !.timer.cookie = freq]

\* stats_timer_kill that leaves a registered timer registered
stats_timer_kill_noop(tm) == tm

stats_timer_kill(tm) ==
  IF ~tm.timer.handler THEN tm
  ELSE IF tm.timer.registered THEN iv_timer_unregister(tm)
  ELSE tm

\* freq of stats_timer_reinit without the floor of 1
TimerFreq_nofloor(options) ==
  IF options.log_freq # 0
    THEN options.log_freq
    ELSE CDiv(options.lifetime, 2)

\* freq of stats_timer_reinit
TimerFreq(options) ==
  IF options.log_freq # 0
    THEN options.log_freq
    ELSE IF options.lifetime <= 1 THEN 1 ELSE CDiv(options.lifetime, 2)

\* the timer state of the program
TimerState == [timer |-> stats_timer, wakes |-> iv_timers]

\* line 235 with publishing for every log_freq
publish_always(options) == TRUE

\* line 235
publish(options) == options.log_freq > 0

\* the timer fires: iv_timer takes it off its list and calls the handler,
\* stats_timer_elapsed; lines 234-243 of stats_publish_and_prune_counters
stats_timer_elapsed ==
  /\ pass_pc = "idle"
  /\ \E i \in 1..Len(iv_timers) :
       /\ stats_clock >= iv_timers[i]
       /\ iv_timers' = RemoveAt(iv_timers, i)
  /\ stats_timer' = [stats_timer EXCEPT !.registered = FALSE]
  /\ rescheduled' = FALSE
  /\ st' = [now |-> stats_clock, oldest_counter |-> 0, dropped_counters |-> 0,
            stats_event |-> publish(stats_options)]
  /\ pass_pc' = "lock"
  /\ UNCHANGED <<throttle_vars, stats_options, clusters, stats_lock, stats_clock,
                 to_visit, cur, expired, formatted, sent, notice, snapshot>>

\* the iteration started without the registry lock
PassLockSkipped ==
  /\ pass_pc = "lock"
  /\ to_visit' = DOMAIN clusters
  /\ snapshot' = clusters
  /\ pass_pc' = "visit"
  /\ UNCHANGED <<throttle_vars, stats_options, clusters, stats_lock, stats_clock,
                 timer_vars, st, cur, expired, formatted, sent, notice>>

\* line 245, and the start of stats_foreach_cluster_remove
PassLock ==
  /\ pass_pc = "lock"
  /\ stats_lock = NoThread
  /\ stats_lock' = MainThread
  /\ to_visit' = DOMAIN clusters
  /\ snapshot' = clusters
  /\ pass_pc' = "visit"
  /\ UNCHANGED <<throttle_vars, stats_options, clusters, stats_clock, timer_vars, st, cur,
                 expired, formatted, sent, notice>>

\* line 227: the next cluster of the iteration is formatted
PassFormat(c) ==
  /\ pass_pc = "visit"
  /\ c \in to_visit
  /\ cur' = c
  /\ formatted' = formatted \cup {c}
  /\ pass_pc' = "prune"
  /\ UNCHANGED <<throttle_vars, stats_options, clusters, stats_lock, stats_clock, timer_vars,
                 st, to_visit, expired, sent, notice, snapshot>>

\* line 228; stats_foreach_cluster_remove removes the cluster when the
\* callback returns TRUE
PassPrune ==
  /\ pass_pc = "prune"
  /\ LET r == stats_prune_counter(clusters[cur], st)
     IN  /\ st' = r.st
         /\ expired' = r.expired
         /\ clusters' = IF r.expired
                          THEN g_hash_table_remove(clusters, cur)
                          ELSE clusters
  /\ to_visit' = to_visit \ {cur}
  /\ pass_pc' = "visit"
  /\ UNCHANGED <<throttle_vars, stats_options, stats_lock, stats_clock, timer_vars, cur,
                 formatted, sent, notice, snapshot>>

\* line 247: the iteration is over; its cursor is not read again
PassUnlock ==
  /\ pass_pc = "visit"
  /\ to_visit = {}
  /\ stats_lock' = NoThread
  /\ pass_pc' = "send"
  /\ cur' = NoCluster
  /\ expired' = FALSE
  /\ snapshot' = [c \in {} |-> 0]
  /\ UNCHANGED <<throttle_vars, stats_options, clusters, stats_clock,
                 timer_vars, st, to_visit, formatted, sent, notice>>

\* lines 249-258
PassReport ==
  /\ pass_pc = "send"
  /\ sent' = publish(stats_options)
  /\ notice' = IF st.dropped_counters > 0
                 THEN [dropped |-> st.dropped_counters,
                       oldest_timestamp |-> st.oldest_counter]
                 ELSE NoNotice
  /\ pass_pc' = "rearm"
  /\ UNCHANGED <<throttle_vars, stats_options, clusters, stats_lock, stats_clock, timer_vars,
                 st, to_visit, cur, expired, formatted, snapshot>>

\* line 300, at the end of stats_timer_elapsed; what the pass has put out
\* is not kept after it
PassRearm ==
  /\ pass_pc = "rearm"
  /\ LET tm == stats_timer_rearm(TimerState)
     IN  stats_timer' = tm.timer /\ iv_timers' = tm.wakes
  /\ pass_pc' = "idle"
  /\ st' = NoState
  /\ formatted' = {}
  /\ sent' = FALSE
  /\ notice' = NoNotice
  /\ UNCHANGED <<throttle_vars, stats_options, clusters, stats_lock,
                 stats_clock, to_visit, cur, expired, snapshot, rescheduled>>

\* stats_reinit, called by the main thread when a configuration is applied
stats_reinit(options) ==
  /\ pass_pc = "idle"
  /\ stats_options' = options
  /\ LET tm == stats_timer_rearm(
                 stats_timer_init(stats_timer_kill(TimerState),
                                  TimerFreq(options)))
     IN  /\ stats_timer' = tm.timer
         /\ iv_timers' = tm.wakes
         /\ rescheduled' = (/\ stats_timer.registered
                            /\ tm.timer.registered
                            /\ tm.timer.expires # stats_timer.expires)
  /\ UNCHANGED <<throttle_vars, clusters, stats_lock, stats_clock, pass_vars>>

StatsNext ==
  \/ \E o \in Options : stats_reinit(o)
  \/ StatsClockAdvance
  \/ stats_lock_acquire
  \/ stats_unlock
  \/ \E c \in ClusterIds, dyn \in BOOLEAN, type \in CounterTypes :
       stats_register_counter(c, dyn, type)
  \/ \E c \in ClusterIds : stats_unregister_counter(c)
  \/ \E c \in ClusterIds : stats_counter_set_stamp(c)
  \/ stats_timer_elapsed
  \/ PassLock
  \/ \E c \in ClusterIds : PassFormat(c)
  \/ PassPrune
  \/ PassUnlock
  \/ PassReport
  \/ PassRearm

(***************************************************************************)
(* Specifications                                                          *)
(***************************************************************************)
Init == ThrottleInit /\ StatsInit

ThrottleNext ==
  \/ \E r \in -1..MaxRate : filter_throttle_set_rate(r)
  \/ \E h \in 0..1 : filter_throttle_set_key(h)
  \/ filter_throttle_init
  \/ ClockAdvance
  \/ ClockStepBack
  \/ \E t \in Threads :
       \/ \E batch \in Batches : EvalCall(t, batch)
       \/ EvalKey(t)
       \/ MapLock(t)
       \/ MapLookup(t)
       \/ MapInsert(t) /\ UNCHANGED hist_vars
       \/ RefillRead(t) /\ UNCHANGED hist_vars
       \/ RefillLock(t)
       \/ RefillUpdate(t)
       \/ ConsumeLock(t)
       \/ Consume(t) /\ UNCHANGED hist_vars
       \/ ConsumeUnlock(t)

ThrottleSpec == Init /\ [][ThrottleNext]_vars

\* history: a bucket is created for the key of the call
NoteInsert(t) ==
  /\ created' = [created EXCEPT ![key[t]] = clock]
  /\ last_call' = [last_call EXCEPT ![key[t]] = clock]
  /\ admitted' = [admitted EXCEPT ![key[t]] = 0]

\* history: throttle_ratelimit_add_new_tokens is called for the bucket
NoteRefill(t) ==
  /\ last_call' = [last_call EXCEPT ![key[t]] = clock]
  /\ UNCHANGED <<created, admitted>>

\* history: the messages of the call are accepted or not
NoteConsume(t) ==
  /\ admitted' = [admitted EXCEPT ![key[t]] =
                    IF within_ratelimit'[t] THEN @ + num_msg[t] ELSE @]
  /\ UNCHANGED <<created, last_call>>

\* a step of a call of filter_throttle_eval that has begun, with the
\* history kept
CallStep(t) ==
  \/ EvalKey(t)
  \/ MapLock(t)
  \/ MapLookup(t)
  \/ MapInsert(t) /\ NoteInsert(t)
  \/ RefillRead(t) /\ NoteRefill(t)
  \/ RefillLock(t)
  \/ RefillUpdate(t)
  \/ ConsumeLock(t)
  \/ Consume(t) /\ NoteConsume(t)
  \/ ConsumeUnlock(t)

\* a thread begins a call or goes on with the one it is in
EvalStep(t) ==
  \/ \E batch \in Batches : EvalCall(t, batch)
  \/ CallStep(t)

\* the filter used by concurrent threads, under a clock that only advances
CreditNext ==
  \/ \E r \in -1..MaxRate : filter_throttle_set_rate(r)
  \/ \E h \in 0..1 : filter_throttle_set_key(h)
  \/ filter_throttle_init
  \/ ClockAdvance
  \/ \E t \in Threads : EvalStep(t)

CreditSpec == Init /\ [][CreditNext]_vars

\* the filter used by a single thread, under a clock that only advances
SingleThread == "t1"

RefillNext ==
  \/ \E r \in -1..MaxRate : filter_throttle_set_rate(r)
  \/ \E h \in 0..1 : filter_throttle_set_key(h)
  \/ filter_throttle_init
  \/ ClockAdvance
  \/ EvalStep(SingleThread)

RefillSpec == Init /\ [][RefillNext]_vars

\* the filter used by a single thread, under the wall clock, which may be
\* set back
WallClockNext ==
  \/ \E r \in -1..MaxRate : filter_throttle_set_rate(r)
  \/ \E h \in 0..1 : filter_throttle_set_key(h)
  \/ filter_throttle_init
  \/ ClockAdvance
  \/ ClockStepBack
  \/ EvalStep(SingleThread)

WallClockSpec == Init /\ [][WallClockNext]_vars

\* rate() takes any gint: 1, 2^30 and G_MAXINT
HighRates == {1, G_MAXINT \div 2 + 1, G_MAXINT}

\* the clock advances by any time while the filter is idle or in a call
ClockLeap ==
  /\ \E n \in 1..MaxIdle :
       /\ clock + n <= MaxIdle
       /\ clock' = clock + n
  /\ ClockChanged
  /\ UNCHANGED <<stats_vars, rate, key_handle, map_lock, rate_limits, heap, init_result,
                 msg_errors, eval_vars>>

\* the filter configured with a rate of any size and used by a single
\* thread, under a clock that only advances
HighRateNext ==
  \/ \E r \in HighRates : filter_throttle_set_rate(r)
  \/ filter_throttle_init
  \/ ClockLeap
  \/ EvalStep(SingleThread)

HighRateSpec == Init /\ [][HighRateNext]_vars

\* concurrent threads, all on the key of a filter without a key field,
\* under fair scheduling: a thread that can go on with its call again and
\* again does so
FairNext ==
  \/ \E r \in -1..MaxRate : filter_throttle_set_rate(r)
  \/ filter_throttle_init
  \/ ClockAdvance
  \/ \E t \in Threads : EvalStep(t)

FairSpec ==
  /\ Init
  /\ [][FairNext]_vars
  /\ \A t \in Threads : SF_vars(CallStep(t))

StatsSpec == Init /\ [][StatsNext]_vars

(***************************************************************************)
(* Claims                                                                  *)
(***************************************************************************)
Buckets == DOMAIN heap

\* C1: every token bucket whose lock no thread holds has
\* 0 <= tokens <= capacity, after any interleaving of refills and consumes
\* of at least one token.
C1_TokenBounds ==
  \A i \in Buckets :
    heap[i].lock = NoThread => 0 <= heap[i].tokens /\ heap[i].tokens <= heap[i].rate

\* a thread takes the step from pc value a to pc value b
Steps(t, a, b) == pc[t] = a /\ pc'[t] = b

\* C2: try_consume(n) with tokens >= n succeeds, takes exactly n tokens and
\* leaves capacity and last_refill alone; with tokens < n it fails and
\* leaves tokens, capacity and last_refill alone.
C2_TryConsume ==
  [][\A t \in Threads :
       Steps(t, "consume", "consume_unlock") =>
         LET b == heap[rl[t]]
             b2 == heap'[rl[t]]
             n == num_msg[t]
         IN  /\ b2.rate = b.rate
             /\ b2.last_check = b.last_check
             /\ b.tokens >= n => within_ratelimit'[t] /\ b2.tokens = b.tokens - n
             /\ b.tokens < n => ~within_ratelimit'[t] /\ b2.tokens = b.tokens]_vars

\* a batch as large as all the tokens left (and more than one) was accepted
C2_Witness ==
  \E t \in Threads :
    /\ pc[t] = "consume_unlock"
    /\ within_ratelimit[t]
    /\ num_msg[t] > 1
    /\ heap[rl[t]].tokens = 0

\* C3: while no time elapses since a key's bucket was created with rate R,
\* a batch of n messages is accepted iff n <= R minus the messages accepted
\* so far, so that no more than R messages are accepted in all.
C3_NoTimeNoTokens ==
  /\ [](\A k \in Keys : rate_limits[k] # 0 => accepted[k] <= rate)
  /\ [][\A t \in Threads :
          Steps(t, "consume", "consume_unlock") /\ ~elapsed[key[t]] =>
            (within_ratelimit'[t] <=> num_msg[t] <= rate - accepted[key[t]])]_vars

\* the rate was used up by one batch and the next batch of the same size
\* is rejected
C3_Witness ==
  \E t \in Threads :
    /\ pc[t] = "consume_unlock"
    /\ ~within_ratelimit[t]
    /\ ~elapsed[key[t]]
    /\ num_msg[t] = rate
    /\ accepted[key[t]] = rate

\* the positions of filter_throttle_eval at which rl is the key's bucket
BucketPcs == {"refill_read", "refill_lock", "refill_update", "consume_lock",
              "consume", "consume_unlock"}

\* C4: every bucket ever allocated is the bucket of exactly one key, the
\* bucket of a key is never replaced, and a thread evaluating a key works
\* on the bucket the table holds for that key.
C4_OneBucketPerKey ==
  /\ [](/\ Len(heap) = Cardinality({k \in Keys : rate_limits[k] # 0})
        /\ \A k1, k2 \in Keys :
             rate_limits[k1] # 0 /\ rate_limits[k1] = rate_limits[k2] => k1 = k2
        /\ \A t \in Threads :
             pc[t] \in BucketPcs => rl[t] # 0 /\ rl[t] = rate_limits[key[t]])
  /\ [][\A k \in Keys :
          rate_limits[k] # 0 => rate_limits'[k] = rate_limits[k]]_vars

\* two threads are in their first calls with the same key: one has just
\* inserted the bucket, the other is waiting for the table lock
C4_Witness ==
  \E t, u \in Threads :
    /\ t # u
    /\ calls = 2
    /\ Len(heap) = 1
    /\ pc[t] = "refill_read"
    /\ pc[u] = "map_lock"
    /\ key[u] = key[t]

\* C5: a step of an evaluation of key k1 leaves the tokens and last_refill
\* of the bucket of every other key as they are.
C5_KeyIsolation ==
  [][\A t \in Threads :
       pc'[t] # pc[t] =>
         \A k2 \in Keys :
           (pc[t] \in {"idle", "derive_key"} \/ k2 # key[t]) /\ rate_limits[k2] # 0 =>
              /\ rate_limits'[k2] = rate_limits[k2]
              /\ heap'[rate_limits[k2]].tokens = heap[rate_limits[k2]].tokens
              /\ heap'[rate_limits[k2]].last_check = heap[rate_limits[k2]].last_check]_vars

\* one key's bucket has just been emptied while another key's bucket is full
C5_Witness ==
  \E t \in Threads :
    /\ pc[t] = "consume_unlock"
    /\ within_ratelimit[t]
    /\ heap[rl[t]].tokens = 0
    /\ \E k2 \in Keys \ {key[t]} :
         rate_limits[k2] # 0 /\ heap[rate_limits[k2]].tokens = rate

\* the key the claim gives for a batch
C6_Key(batch) ==
  LET last == batch[Len(batch)]
  IN  IF key_handle # 0 /\ last # ABSENT THEN last ELSE ""

\* C6: the key of a batch is the key-field value of its last message, or
\* the empty string when no key field is configured or the last message has
\* none; no step of an evaluation reports an error.
C6_LastRecordKey ==
  /\ [](\A t \in Threads : pc[t] = "map_lock" => key[t] = C6_Key(msgs[t]))
  /\ [][(\E t \in Threads : pc'[t] # pc[t]) => msg_errors' = msg_errors]_vars

\* a batch whose first message has the field and whose last has not
C6_Witness ==
  \E t \in Threads :
    /\ pc[t] = "map_lock"
    /\ key_handle # 0
    /\ Len(msgs[t]) = 2
    /\ msgs[t][1] = "a"
    /\ msgs[t][2] = ABSENT
    /\ key[t] = ""

\* C7: init succeeds iff rate > 0, reports an error when it fails, and
\* leaves the table and the buckets as they are.
C7_InitChecksRate ==
  [][init_result = "unset" /\ init_result' # "unset" =>
       /\ rate > 0 => init_result' = "TRUE" /\ msg_errors' = msg_errors
       /\ rate <= 0 => init_result' = "FALSE" /\ msg_errors' = msg_errors + 1
       /\ rate_limits' = rate_limits
       /\ heap' = heap]_vars

\* init of a filter whose rate was never set has failed
C7_Witness ==
  /\ init_result = "FALSE"
  /\ rate = 0
  /\ msg_errors = 1

\* is_expired as the claims state it
IsExpired(sc, t_now) ==
  /\ sc.dynamic
  /\ sc.ref_cnt = 0
  /\ BitAnd(sc.live_mask, SC_TYPE_STAMP) # 0
  /\ sc.counters[SC_TYPE_STAMP] <= t_now - stats_options.lifetime

\* the pass has visited every cluster and still holds the registry lock
PassDone == pass_pc = "visit" /\ to_visit = {} /\ stats_lock = MainThread

\* C8: a cluster is found expired iff it is dynamic, unreferenced, has a
\* live timestamp counter and its timestamp is <= now - lifetime; the
\* evaluation changes neither the options nor the cluster.
C8_IsExpired ==
  [][pass_pc = "prune" /\ pass_pc' = "visit" =>
       /\ expired' <=> IsExpired(clusters[cur], st.now)
       /\ stats_options' = stats_options
       /\ \A c \in DOMAIN clusters' : clusters'[c] = clusters[c]]_vars

\* a cluster stamped exactly now - lifetime was found expired
C8_Witness ==
  /\ pass_pc = "visit"
  /\ cur \in DOMAIN snapshot
  /\ expired
  /\ stats_options.lifetime > 0
  /\ snapshot[cur].counters[SC_TYPE_STAMP] = st.now - stats_options.lifetime

\* C9: a cluster leaves the registry only if, at that moment, it is
\* dynamic, unreferenced and has a live timestamp counter.
C9_ProtectedNeverRemoved ==
  [][\A c \in DOMAIN clusters :
       c \notin DOMAIN clusters' =>
         /\ clusters[c].dynamic
         /\ clusters[c].ref_cnt = 0
         /\ BitAnd(clusters[c].live_mask, SC_TYPE_STAMP) # 0]_vars

\* a referenced dynamic cluster whose timestamp is older than the lifetime
\* was visited and is still registered
C9_Witness ==
  /\ pass_pc = "visit"
  /\ cur \in DOMAIN clusters
  /\ ~expired
  /\ clusters[cur].dynamic
  /\ clusters[cur].ref_cnt > 0
  /\ BitAnd(clusters[cur].live_mask, SC_TYPE_STAMP) # 0
  /\ clusters[cur].counters[SC_TYPE_STAMP] < st.now - stats_options.lifetime

\* C10: when a pass has visited every cluster, the clusters it removed are
\* exactly those that were expired at the time of the pass, every other
\* cluster is as it was, dropped_counters is the number removed, and no
\* cluster left is expired at that time; the notice reports that number.
C10_PassRemovesExpired ==
  /\ PassDone =>
       LET removed == DOMAIN snapshot \ DOMAIN clusters
       IN  /\ DOMAIN clusters \subseteq DOMAIN snapshot
           /\ removed = {c \in DOMAIN snapshot : IsExpired(snapshot[c], st.now)}
           /\ \A c \in DOMAIN clusters : clusters[c] = snapshot[c]
           /\ st.dropped_counters = Cardinality(removed)
           /\ \A c \in DOMAIN clusters : ~IsExpired(clusters[c], st.now)
  /\ pass_pc = "rearm" => notice.dropped = st.dropped_counters

\* a pass has dropped two clusters, both stamped now - lifetime - 1
C10_Witness ==
  /\ PassDone
  /\ st.dropped_counters = 2
  /\ \A c \in DOMAIN snapshot :
       snapshot[c].counters[SC_TYPE_STAMP] = st.now - stats_options.lifetime - 1

\* the positions of a pass between the fire of the timer and the re-arm
PassPcs == {"lock", "visit", "prune", "send", "rearm"}

\* C11: a pass creates a snapshot event iff log_freq > 0 and sends it iff
\* log_freq > 0; with log_freq = 0 nothing is created or sent, and the pass
\* still visits every cluster and removes exactly the expired ones.
C11_PublishIffLogFreq ==
  /\ pass_pc \in PassPcs => (st.stats_event <=> stats_options.log_freq > 0)
  /\ pass_pc = "rearm" => (sent <=> stats_options.log_freq > 0)
  /\ pass_pc # "rearm" => ~sent
  /\ PassDone /\ stats_options.log_freq = 0 =>
       /\ ~st.stats_event
       /\ formatted = DOMAIN snapshot
       /\ DOMAIN snapshot \ DOMAIN clusters =
            {c \in DOMAIN snapshot : IsExpired(snapshot[c], st.now)}

\* a pass with log_freq = 0 has visited two clusters and removed one of
\* them, and has no snapshot event
C11_Witness ==
  /\ PassDone
  /\ stats_options.log_freq = 0
  /\ ~st.stats_event
  /\ Cardinality(DOMAIN snapshot) = 2
  /\ Cardinality(DOMAIN clusters) = 1

\* stats_reinit has been called: stats_timer_init has set the handler
Reinited == stats_timer.handler

\* C12: after stats_reinit the interval of the timer is log_freq when that
\* is nonzero and max(1, lifetime / 2) otherwise, and it is never 0.
C12_TimerInterval ==
  Reinited =>
    LET half == stats_options.lifetime \div 2
    IN  /\ stats_options.log_freq # 0 =>
             stats_timer.cookie = stats_options.log_freq
        /\ stats_options.log_freq = 0 =>
             stats_timer.cookie = IF half > 1 THEN half ELSE 1
        /\ stats_timer.cookie # 0

\* log_freq = 0 and the long lifetime give half the lifetime
C12_Witness ==
  /\ Reinited
  /\ stats_options.log_freq = 0
  /\ stats_options.lifetime = LongLifetime
  /\ stats_timer.cookie = LongLifetime \div 2
  /\ stats_timer.registered

\* a step of stats_reinit: the main thread is outside a pass before and
\* after it, and the options or the timer change
ReinitStep ==
  /\ pass_pc = "idle"
  /\ pass_pc' = "idle"
  /\ \/ stats_timer' # stats_timer
     \/ Reinited /\ stats_options' # stats_options

\* C13: at most one wake of the stats timer is pending, and it is the wake
\* of the timer when that is registered; after stats_reinit the only wake
\* is the one at now + the new interval, and every wake scheduled is at
\* now + the interval of the current options; killing a timer that is not
\* registered changes nothing.
C13_OneWakePending ==
  /\ [](/\ Len(iv_timers) <= 1
        /\ stats_timer.registered => iv_timers = <<stats_timer.expires>>
        /\ ~stats_timer.registered => iv_timers = <<>>
        /\ ~stats_timer.registered => stats_timer_kill(TimerState) = TimerState)
  /\ [][ReinitStep =>
          LET freq == TimerFreq(stats_options')
          IN  iv_timers' = IF freq > 0 THEN <<stats_clock + freq>> ELSE <<>>]_vars
  /\ [][iv_timers' # iv_timers /\ iv_timers' # <<>> =>
          iv_timers' = <<stats_clock + TimerFreq(stats_options')>>]_vars

\* stats_reinit has replaced a pending wake by one at another time
C13_Witness ==
  /\ rescheduled
  /\ pass_pc = "idle"
  /\ stats_clock > 0
  /\ iv_timers = <<stats_clock + stats_timer.cookie>>

\* C14: after stats_reinit, whatever the options, the timer is armed
\* whenever no pass is running (a fire runs one pass and re-arms the timer).
C14_ArmedAfterReinit ==
  Reinited /\ pass_pc = "idle" =>
    stats_timer.registered /\ iv_timers # <<>>

\* the positions of a pass inside stats_foreach_cluster_remove
VisitPcs == {"visit", "prune"}

\* a step in which the snapshot is sent or the notice is logged
Reported ==
  \/ ~sent /\ sent'
  \/ notice.dropped = 0 /\ notice'.dropped > 0

\* C18: the main thread holds the registry lock during all the visits of a
\* pass and only then; between two visits the registry changes only by the
\* removal of the cluster visited; a cluster is formatted once, before its
\* expiry is evaluated, also when it is removed; the snapshot is sent and
\* the notice is logged when the main thread no longer holds the lock.
C18_LockHeldThroughPass ==
  /\ [](/\ pass_pc \in VisitPcs => stats_lock = MainThread
        /\ pass_pc \notin VisitPcs => stats_lock # MainThread
        /\ PassDone => formatted = DOMAIN snapshot)
  /\ [][(pass_pc \in VisitPcs) /\ (pass_pc' \in VisitPcs) =>
          /\ \A c \in DOMAIN clusters' :
               c \in DOMAIN clusters /\ clusters'[c] = clusters[c]
          /\ \A c \in DOMAIN clusters : c \in DOMAIN clusters' \/ c = cur]_vars
  /\ [][pass_pc = "visit" /\ pass_pc' = "prune" =>
          cur' \notin formatted /\ formatted' = formatted \cup {cur'}]_vars
  /\ [][pass_pc = "prune" /\ pass_pc' = "visit" => cur \in formatted]_vars
  /\ [][Reported => pass_pc = "send" /\ stats_lock # MainThread]_vars

\* a pass has formatted two clusters, removed one, sent the snapshot and
\* logged the notice, and a writer already holds the registry lock again
C18_Witness ==
  /\ pass_pc = "rearm"
  /\ sent
  /\ notice.dropped = 1
  /\ Cardinality(formatted) = 2
  /\ stats_lock = Holder

\* the least element of a nonempty set of integers
SetMin(S) == CHOOSE x \in S : \A y \in S : x <= y

\* C19: a pass logs the notice iff it removed a cluster, and the oldest
\* timestamp it reports is the least timestamp of the clusters removed.
C19_OldestIsMinimum ==
  /\ PassDone =>
       LET removed == DOMAIN snapshot \ DOMAIN clusters
       IN  removed # {} =>
             st.oldest_counter =
               SetMin({snapshot[c].counters[SC_TYPE_STAMP] : c \in removed})
  /\ pass_pc = "rearm" =>
       /\ notice.dropped > 0 <=> st.dropped_counters > 0
       /\ notice.oldest_timestamp = st.oldest_counter

\* a clock reading in microseconds
Usec(ticks) == ticks * TickUsec

\* floor(usec * r / 1_000_000) for usec >= 0
Accrued(usec, r) == (usec * r) \div G_USEC_PER_SEC

\* microseconds between last_refill of a bucket and a time value
SinceLastCheck(b, tv) ==
  (tv.tv_sec * G_USEC_PER_SEC + tv.tv_usec)
    - (b.last_check.tv_sec * G_USEC_PER_SEC + b.last_check.tv_usec)

C16_RefillFrame ==
  /\ [](\A t \in Threads :
          pc[t] = "refill_update" =>
            heap[rl[t]].lock = t /\ num_new_tokens[t] # 0)
  /\ [][\A t \in Threads :
          /\ Steps(t, "refill_read", "consume_lock") =>
               num_new_tokens'[t] = 0 /\ heap' = heap
          /\ Steps(t, "refill_read", "refill_lock") =>
               /\ num_new_tokens'[t] # 0
               /\ now'[t] = g_get_current_time
               /\ heap' = heap
          /\ Steps(t, "refill_lock", "refill_update") =>
               heap' = [heap EXCEPT ![rl[t]].lock = t]
          /\ Steps(t, "refill_update", "consume_lock") =>
               LET b == heap[rl[t]]
               IN  heap' = [heap EXCEPT ![rl[t]] =
                              [tokens     |-> MIN(b.rate, b.tokens + num_new_tokens[t]),
                               rate       |-> b.rate,
                               last_check |-> now[t],
                               lock       |-> NoThread]]
          /\ pc'[t] # pc[t] /\ pc[t] = "refill_read" =>
               pc'[t] = "consume_lock" \/ pc'[t] = "refill_lock"
          /\ pc'[t] # pc[t] /\ pc'[t] = "consume_lock" =>
               pc[t] = "refill_read" \/ pc[t] = "refill_update"
          /\ pc'[t] # pc[t] /\ pc'[t] = "consume" => pc[t] = "consume_lock"
          /\ pc'[t] # pc[t] /\ pc'[t] = "consume_unlock" => pc[t] = "consume"
          /\ pc'[t] # pc[t] /\ pc'[t] = "idle" => pc[t] = "consume_unlock"]_vars

\* a call whose refill added the one token accrued since the bucket was
\* created has rejected a batch of two
C16_Witness ==
  \E t \in Threads :
    /\ pc[t] = "consume_unlock"
    /\ ~within_ratelimit[t]
    /\ num_msg[t] = 2
    /\ last_call[key[t]] > created[key[t]]
    /\ heap[rl[t]].last_check = TimeVal(last_call[key[t]])
    /\ heap[rl[t]].tokens = 1

\* a thread holds the lock of some bucket
HoldsBucketLock(t) == \E i \in Buckets : heap[i].lock = t

\* C17: no thread holds the table lock and a bucket lock together; the
\* table lock is released before the refill, and the bucket lock is not
\* held between the refill and the consume check; whenever a call is in
\* progress some thread can take a step; every call that has begun returns.
C17_NoDeadlock ==
  /\ [](\A t \in Threads :
          /\ ~(map_lock = t /\ HoldsBucketLock(t))
          /\ pc[t] \in BucketPcs => map_lock # t
          /\ pc[t] \in {"refill_read", "refill_lock", "consume_lock"} =>
               ~HoldsBucketLock(t))
  /\ []((\E t \in Threads : pc[t] # "idle") =>
          \E t \in Threads : ENABLED CallStep(t))
  /\ \A t \in Threads : (pc[t] # "idle") ~> (pc[t] = "idle")

\* one thread waits for the lock of the bucket another thread is
\* refilling, while the table lock is free
C17_Witness ==
  \E t, u \in Threads :
    /\ pc[t] = "consume_lock"
    /\ pc[u] = "refill_update"
    /\ rl[t] = rl[u]
    /\ heap[rl[u]].lock = u
    /\ map_lock = NoThread

\* C20: at every time, the messages accepted for a key since its bucket was
\* created are at most capacity + floor(E * rate / 1_000_000), E being the
\* time since the creation, whatever the interleaving of the calls.
C20_CreditedOnce ==
  \A k \in Keys :
    rate_limits[k] # 0 =>
      admitted[k] <= rate + Accrued(Usec(clock) - Usec(created[k]), rate)

\* C21: a refill never decreases the tokens of a bucket and never leaves
\* them below 0, whatever the clock reads, a reading earlier than
\* last_refill included.
C21_RefillNeverDecreases ==
  [][\A t \in Threads :
       pc[t] \in {"refill_read", "refill_lock", "refill_update"}
       /\ pc'[t] # pc[t] =>
         /\ heap'[rl[t]].tokens >= heap[rl[t]].tokens
         /\ heap'[rl[t]].tokens >= 0]_vars

\* C22: for every positive rate a gint holds and every elapsed time, a
\* bucket left idle for at least one second is full (tokens = capacity)
\* after the next refill, also when elapsed_usec * rate / 1_000_000 is above
\* 2^31 - 1: the refill computes min(capacity, tokens + floor(elapsed_usec *
\* rate / 1_000_000)) without wrap-around.
C22_FullAfterIdleSecond ==
  [][\A t \in Threads :
       /\ (pc[t] = "refill_read" /\ pc'[t] = "consume_lock"
           /\ SinceLastCheck(heap[rl[t]], g_get_current_time) >= G_USEC_PER_SEC)
            => heap'[rl[t]].tokens = heap'[rl[t]].rate
       /\ (pc[t] = "refill_update" /\ pc'[t] = "consume_lock"
           /\ SinceLastCheck(heap[rl[t]], now[t]) >= G_USEC_PER_SEC)
            => heap'[rl[t]].tokens = heap'[rl[t]].rate]_vars

=============================================================================
